---------------------------- MODULE Spec2Model ----------------------------
(***************************************************************************)
(* A model of the peacefair_energy integration: the Modbus hub             *)
(* (modbus.py), the polling coordinator and its reset operation            *)
(* (__init__.py), and the monthly-energy and tiered-pricing sensors        *)
(* (sensor.py).                                                            *)
(*                                                                         *)
(* Numbers.  The code works on Python floats.  The model keeps every       *)
(* measured quantity as an integer number of thousandths of its unit       *)
(* (energy in Wh for kWh, voltage in mV for V, ...), so that "/ 10",       *)
(* "/ 100" and "/ 1000" of the decoder are different operations.  Python   *)
(* None is the empty set for optional numbers ({} is None, {v} is v) and   *)
(* the record PyNone for optional dictionaries.                            *)
(***************************************************************************)
EXTENDS Integers, Sequences, FiniteSets, TLC

VARIABLES
    month,            \* dt_util.now().month, the wall clock's month
    options,          \* config_entry.options
    data,             \* PeacefairCoordinator.data
    pcPoll,           \* where the refresh cycle of the coordinator is
    pollResult,       \* what the executor job of _async_update_data gave
    connected,        \* ModbusHub._client.connected
    paramName,        \* ModbusHub._param_name ("unresolved" is None)
    libKeyword,       \* the address keyword the installed pymodbus accepts
    pcReset,          \* where the reset_energy service call is
    startEnergy,      \* PeacefairMonthlyEnergy._start_energy
    lastResetMonth,   \* PeacefairMonthlyEnergy._last_reset_month
    attrNativeValue,  \* PeacefairMonthlyEnergy._attr_native_value
    stored,           \* the last state of the monthly sensor, kept for restore
    phase,            \* "setup": async_setup_entry runs; "running": set up
    monthlyOut,       \* history: what the last read of native_value returned
    costOut,          \* history: what the last read of the cost sensor returned
    levelOut,         \* history: what the last read of the level sensor returned
    priceOut,         \* history: what the last read of the price sensor returned
    preStart,         \* history: _start_energy before the last read
    preMonth,         \* history: _last_reset_month before the last read
    lastGood,         \* history: the snapshot decoded by the last successful poll
    lastPoll,         \* history: "ok" or "failed", how the last finished poll ended
    resetPublished,   \* history: reset_energy published and no poll finished since
    pollAfterReset,   \* history: a good poll finished since reset_energy was last called
    shadowStart,      \* history: _start_energy of a sensor that is never restarted
    shadowMonth,      \* history: _last_reset_month of that sensor
    shadowOut,        \* history: what that sensor's last read returned
    pduKeyword,       \* the address keyword the library's request constructor accepts
    gatherTrace,      \* history: what the last info_gather did on the client
    probed,           \* history: a read of this hub has tried the keywords out
    resetTrace,       \* history: the keywords the last hub reset tried, and its request
    fleet,            \* the entries of hass.data[DOMAIN], per device
    serviceHandler,   \* the device whose coordinator the registered service calls
    fleetLast,        \* history: the last operation on the fleet
    domainData,       \* hass.data[DOMAIN]: the entry ids it holds, None without the key
    device            \* whether the device now answers every read, and its last such answer

vars == <<month, options, data, pcPoll, pollResult, connected, paramName,
          libKeyword, pcReset,
          startEnergy, lastResetMonth, attrNativeValue, stored, phase,
          monthlyOut, costOut, levelOut, priceOut, preStart, preMonth, lastGood,
          lastPoll,
          resetPublished, pollAfterReset, shadowStart, shadowMonth, shadowOut,
          pduKeyword, gatherTrace, probed, resetTrace, fleet, serviceHandler,
          fleetLast, domainData, device>>

-----------------------------------------------------------------------------
(* Bounds of the model. *)

\* How many consecutive calendar months the wall clock ranges over.
NumMonths == 2

\* The lifetime energy the device reports ranges over 0 .. MaxEnergySteps
\* steps of EnergyStep Wh.
MaxEnergySteps == 2

\* The first month the wall clock ranges over (October: the last summer
\* month of DEFAULT_SUMMER_MONTHS, so that both seasons occur).
FirstMonth == 10

\* The step of the reported lifetime energy, in Wh.
EnergyStep == 500

Months == {((FirstMonth - 1 + i) % 12) + 1 : i \in 0 .. (NumMonths - 1)}

-----------------------------------------------------------------------------
(* Python values. *)

PyNone == [none |-> TRUE]

EmptyDict == [k \in {} |-> 0]

\* Python truthiness of an optional dict: None and {} are falsy.
Truthy(d) == d # PyNone /\ DOMAIN d # {}

None == {}

Some(v) == {v}

Val(o) == CHOOSE v \in o : TRUE

\* dict.get(key) on an optional-number view: None when the key is absent.
DictGet(d, key) == IF key \in DOMAIN d THEN Some(d[key]) ELSE None

\* d[key] = value on a dict: sets or adds the key.
DictSet(d, key, value) ==
    [k \in (DOMAIN d) \cup {key} |-> IF k = key THEN value ELSE d[k]]

-----------------------------------------------------------------------------
(* The device and the Modbus library, as the hub sees them. *)

\* The lifetime energy values (Wh) the device reports in this model.
Energies == {i * EnergyStep : i \in 0 .. MaxEnergySteps}

\* A block of 9 input registers of a device whose lifetime energy is e Wh:
\* the registers of the documented example, with the energy pair (low word
\* first) and a voltage that differs from block to block.
Block(e) ==
    <<2300 + (e \div EnergyStep), 100, 0, 50, 0, e % 65536, e \div 65536, 500, 95>>

\* What one call of the library's read_input_registers can do: return a
\* response with registers (9 of them, or another number), return a
\* ModbusIOException object, return an error-flagged response, return an
\* object without registers, or raise.
ReadOutcomes ==
    {[kind |-> "registers", registers |-> Block(e)] : e \in Energies}
    \cup {[kind |-> "registers", registers |-> SubSeq(Block(e), 1, 8)] : e \in {EnergyStep}}
    \cup {[kind |-> k, registers |-> <<>>] :
            k \in {"io_exception", "error_response", "no_registers", "raise"}}

\* The keyword the installed pymodbus accepts for the device address.
LibKeywords == {"slave", "unit", "neither"}

\* ModbusHub._param_name after read_input_registers / _test_and_read, given
\* the cached name pn, the keyword the library accepts and whether the call
\* that was accepted raised.
NegotiatedParam(pn, lib, raised) ==
    IF pn # "unresolved" THEN pn
    ELSE IF lib = "slave" THEN (IF raised THEN pn ELSE "slave")
    ELSE IF lib = "unit" THEN (IF raised THEN pn ELSE "unit")
    ELSE ""

\* A pair put together in 16 bits: the high word is lost.
Pair32Wrapped(high, low) == (high * 65536 + low) % 65536

\* (high << 16) + low
Pair32(high, low) == high * 65536 + low

\* The decoding block of info_gather: the six quantities, each in
\* thousandths of its unit (a register / 10 is register * 100 thousandths).
Decode(r) ==
    [voltage      |-> r[1] * 100,
     current      |-> Pair32(r[3], r[2]),
     power        |-> Pair32(r[5], r[4]) * 100,
     energy       |-> Pair32(r[7], r[6]),
     frequency    |-> r[8] * 100,
     power_factor |-> r[9] * 10]

\* An info_gather that decodes what it can of a block that is too short.
InfoGatherPartial(outcome) ==
    IF outcome.kind = "registers"
    THEN (IF Len(outcome.registers) = 9 THEN Decode(outcome.registers)
          ELSE [voltage |-> outcome.registers[1] * 100])
    ELSE EmptyDict

\* The dict info_gather returns for what the read did.
InfoGather(outcome) ==
    IF outcome.kind = "registers" /\ Len(outcome.registers) = 9
    THEN Decode(outcome.registers)
    ELSE EmptyDict

\* An info_gather whose except branch leaves the client open.
ConnectedAfterGatherOpen(outcome) == TRUE

\* ModbusHub._client.connected after info_gather: the except branch closes
\* the client; a call that returned had a connection.
ConnectedAfterGather(outcome) == outcome.kind # "raise"

-----------------------------------------------------------------------------
(* PeacefairMonthlyEnergy (sensor.py). *)

\* round(x, 3) of a kWh value given in millionths of a kWh: the nearest
\* thousandth (in Wh), ties to the even one.
Round3(micro) ==
    LET q == micro \div 1000
        r == micro % 1000
    IN  IF 2 * r < 1000 THEN q
        ELSE IF 2 * r > 1000 THEN q + 1
        ELSE IF q % 2 = 0 THEN q ELSE q + 1

\* A native_value without the branch for a negative monthly usage.
NativeValueNoNegativeBranch(start, lrm, attr, d, m) ==
    LET current_total == IF Truthy(d) THEN DictGet(d, "energy") ELSE None
    IN  IF current_total = None
        THEN [out |-> attr, start |-> start, month |-> lrm]
        ELSE IF start = None \/ lrm = None \/ Val(lrm) # m
        THEN [out |-> Some(0), start |-> current_total, month |-> Some(m)]
        ELSE [out |-> Some(Round3((Val(current_total) - Val(start)) * 1000)),
              start |-> start, month |-> lrm]

\* A native_value that looks at the monthly usage before it looks at the
\* month.
NativeValueUsageFirst(start, lrm, attr, d, m) ==
    LET current_total == IF Truthy(d) THEN DictGet(d, "energy") ELSE None
    IN  IF current_total = None
        THEN [out |-> attr, start |-> start, month |-> lrm]
        ELSE IF start = None \/ lrm = None
        THEN [out |-> Some(0), start |-> current_total, month |-> Some(m)]
        ELSE IF Val(current_total) < Val(start)
        THEN [out |-> Some(0), start |-> current_total, month |-> lrm]
        ELSE IF Val(lrm) # m
        THEN [out |-> Some(0), start |-> current_total, month |-> Some(m)]
        ELSE [out |-> Some(Round3((Val(current_total) - Val(start)) * 1000)),
              start |-> start, month |-> lrm]

\* A native_value that sets no month when it starts cold.
NativeValueColdKeepsMonth(start, lrm, attr, d, m) ==
    LET current_total == IF Truthy(d) THEN DictGet(d, "energy") ELSE None
    IN  IF current_total = None
        THEN [out |-> attr, start |-> start, month |-> lrm]
        ELSE IF start = None \/ lrm = None
        THEN [out |-> Some(0), start |-> current_total, month |-> lrm]
        ELSE IF Val(lrm) # m
        THEN [out |-> Some(0), start |-> current_total, month |-> Some(m)]
        ELSE IF Val(current_total) < Val(start)
        THEN [out |-> Some(0), start |-> current_total, month |-> lrm]
        ELSE [out |-> Some(Round3((Val(current_total) - Val(start)) * 1000)),
              start |-> start, month |-> lrm]

\* A native_value that moves the baseline to the total on every read.
NativeValueRebaselines(start, lrm, attr, d, m) ==
    LET current_total == IF Truthy(d) THEN DictGet(d, "energy") ELSE None
    IN  IF current_total = None
        THEN [out |-> attr, start |-> start, month |-> lrm]
        ELSE IF start = None \/ lrm = None \/ Val(lrm) # m
        THEN [out |-> Some(0), start |-> current_total, month |-> Some(m)]
        ELSE IF Val(current_total) < Val(start)
        THEN [out |-> Some(0), start |-> current_total, month |-> lrm]
        ELSE [out |-> Some(Round3((Val(current_total) - Val(start)) * 1000)),
              start |-> current_total, month |-> lrm]

\* A native_value that, read first in a new month, returns what the old
\* month had come to and only then starts the new month.
NativeValueRolloverReportsLast(start, lrm, attr, d, m) ==
    LET current_total == IF Truthy(d) THEN DictGet(d, "energy") ELSE None
    IN  IF current_total = None
        THEN [out |-> attr, start |-> start, month |-> lrm]
        ELSE IF start = None \/ lrm = None
        THEN [out |-> Some(0), start |-> current_total, month |-> Some(m)]
        ELSE LET monthly_usage == Val(current_total) - Val(start)
             IN  IF monthly_usage < 0
                 THEN [out |-> Some(0), start |-> current_total,
                       month |-> IF Val(lrm) # m THEN Some(m) ELSE lrm]
                 ELSE IF Val(lrm) # m
                 THEN [out |-> Some(Round3(monthly_usage * 1000)),
                       start |-> current_total, month |-> Some(m)]
                 ELSE [out |-> Some(Round3(monthly_usage * 1000)),
                       start |-> start, month |-> lrm]

\* A native_value that moves the baseline when the total went down, and
\* returns the difference it found.
NativeValueReportsDecrease(start, lrm, attr, d, m) ==
    LET current_total == IF Truthy(d) THEN DictGet(d, "energy") ELSE None
    IN  IF current_total = None
        THEN [out |-> attr, start |-> start, month |-> lrm]
        ELSE IF start = None \/ lrm = None
        THEN [out |-> Some(0), start |-> current_total, month |-> Some(m)]
        ELSE IF Val(lrm) # m
        THEN [out |-> Some(0), start |-> current_total, month |-> Some(m)]
        ELSE LET monthly_usage == Val(current_total) - Val(start)
             IN  IF monthly_usage < 0
                 THEN [out |-> Some(monthly_usage), start |-> current_total,
                       month |-> lrm]
                 ELSE [out |-> Some(Round3(monthly_usage * 1000)),
                       start |-> start, month |-> lrm]

\* The property native_value of the monthly sensor, read with the sensor's
\* fields (start, lrm, attr), the coordinator's data d and the clock's month
\* m: the value it returns and the fields it leaves.
NativeValue(start, lrm, attr, d, m) ==
    LET current_total == IF Truthy(d) THEN DictGet(d, "energy") ELSE None
    IN  IF current_total = None
        THEN [out |-> attr, start |-> start, month |-> lrm]
        ELSE IF start = None \/ lrm = None
        THEN [out |-> Some(0), start |-> current_total, month |-> Some(m)]
        ELSE IF Val(lrm) # m
        THEN [out |-> Some(0), start |-> current_total, month |-> Some(m)]
        ELSE LET monthly_usage == Val(current_total) - Val(start)
             IN  IF monthly_usage < 0
                 THEN [out |-> Some(0), start |-> current_total, month |-> lrm]
                 ELSE [out |-> Some(Round3(monthly_usage * 1000)),
                       start |-> start, month |-> lrm]

\* The property extra_state_attributes of the monthly sensor.
ExtraStateAttributes(start, lrm) ==
    [start_energy |-> start, last_reset_month |-> lrm]

\* The state string Home Assistant keeps for a native value: the number's
\* text, or "unknown" for None.
StateString(v) ==
    IF v = None THEN [text |-> "unknown", number |-> 0]
    ELSE [text |-> "number", number |-> Val(v)]

\* float(state.state) of async_added_to_hass: None stands for the
\* ValueError that the code passes over.
FloatOfState(st) == IF st.text = "number" THEN Some(st.number) ELSE None

\* One write of the monthly sensor's state (async_write_ha_state): the state
\* is computed from native_value first, the attributes are read after it.
WriteState(start, lrm, attr, d, m) ==
    LET nv == NativeValue(start, lrm, attr, d, m)
    IN  [acc   |-> nv,
         state |-> [state      |-> StateString(nv.out),
                    attributes |-> ExtraStateAttributes(nv.start, nv.month)]]

\* A restore that takes the baseline energy back but not the month.
AsyncAddedToHassNoMonth(st, d, m) ==
    IF st = {}
    THEN [start |-> None, month |-> None, attr |-> None]
    ELSE LET nv == NativeValue(Val(st).attributes.start_energy, None, None, d, m)
         IN  [start |-> nv.start, month |-> nv.month, attr |-> None]

\* A restore that takes back the baseline pair and nothing else.
AsyncAddedToHassBaselineOnly(st, d, m) ==
    IF st = {}
    THEN [start |-> None, month |-> None, attr |-> None]
    ELSE LET start == Val(st).attributes.start_energy
             lrm   == Val(st).attributes.last_reset_month
             nv    == NativeValue(start, lrm, None, d, m)
         IN  [start |-> IF start # None THEN nv.start ELSE start,
              month |-> IF start # None THEN nv.month ELSE lrm,
              attr  |-> None]

\* async_added_to_hass of the monthly sensor, with the last state st (a set:
\* empty when there is none), on a sensor whose fields are all None: the
\* fields it leaves.
AsyncAddedToHass(st, d, m) ==
    IF st = {}
    THEN [start |-> None, month |-> None, attr |-> None]
    ELSE LET state == Val(st)
             start == state.attributes.start_energy
             lrm   == state.attributes.last_reset_month
             nv    == NativeValue(start, lrm, None, d, m)
         IN  IF start # None /\ nv.out = None
             THEN [start |-> nv.start, month |-> nv.month,
                   attr  |-> FloatOfState(state.state)]
             ELSE [start |-> IF start # None THEN nv.start ELSE start,
                   month |-> IF start # None THEN nv.month ELSE lrm,
                   attr  |-> None]

-----------------------------------------------------------------------------
(* PeacefairCalculatedSensor and PeacefairCostSensor (sensor.py).  Limits  *)
(* are whole kWh, as the options form takes them; a price is a number of   *)
(* 1/160000 CNY per kWh, the unit in which the default prices of const.py  *)
(* are whole numbers (0.59886875 = 95819 / 160000).                        *)

DEFAULT_SUMMER_TIER1 == 260

DEFAULT_SUMMER_TIER2 == 600

DEFAULT_NON_SUMMER_TIER1 == 200

DEFAULT_NON_SUMMER_TIER2 == 400

DEFAULT_SUMMER_PRICE_L1 == 95819

DEFAULT_SUMMER_PRICE_L2 == 103819

DEFAULT_SUMMER_PRICE_L3 == 143819

DEFAULT_NON_SUMMER_PRICE_L1 == 95819

DEFAULT_NON_SUMMER_PRICE_L2 == 103819

DEFAULT_NON_SUMMER_PRICE_L3 == 143819

\* DEFAULT_SUMMER_MONTHS = "5,6,7,8,9,10": a string is the sequence of its
\* comma-separated items, each one the text of an integer or not.
DEFAULT_SUMMER_MONTHS ==
    [i \in 1 .. 6 |-> [isInt |-> TRUE, int |-> i + 4]]

\* options.get(key, default)
OptionGet(opts, key, default) == IF key \in DOMAIN opts THEN opts[key] ELSE default

\* [int(x.strip()) for x in summer_months_str.split(",")], with the
\* ValueError branch.
SummerMonths(str) ==
    IF \A i \in DOMAIN str : str[i].isInt
    THEN {str[i].int : i \in DOMAIN str}
    ELSE {5, 6, 7, 8, 9, 10}

\* _get_season_config: the limits and the prices of the season of month m.
GetSeasonConfig(opts, m) ==
    LET is_summer ==
            m \in SummerMonths(OptionGet(opts, "summer_months", DEFAULT_SUMMER_MONTHS))
    IN  IF is_summer
        THEN [limits |-> <<OptionGet(opts, "summer_tier1_limit", DEFAULT_SUMMER_TIER1),
                           OptionGet(opts, "summer_tier2_limit", DEFAULT_SUMMER_TIER2)>>,
              prices |-> <<OptionGet(opts, "summer_price_level_1", DEFAULT_SUMMER_PRICE_L1),
                           OptionGet(opts, "summer_price_level_2", DEFAULT_SUMMER_PRICE_L2),
                           OptionGet(opts, "summer_price_level_3", DEFAULT_SUMMER_PRICE_L3)>>]
        ELSE [limits |-> <<OptionGet(opts, "non_summer_tier1_limit", DEFAULT_NON_SUMMER_TIER1),
                           OptionGet(opts, "non_summer_tier2_limit", DEFAULT_NON_SUMMER_TIER2)>>,
              prices |-> <<OptionGet(opts, "non_summer_price_level_1", DEFAULT_NON_SUMMER_PRICE_L1),
                           OptionGet(opts, "non_summer_price_level_2", DEFAULT_NON_SUMMER_PRICE_L2),
                           OptionGet(opts, "non_summer_price_level_3", DEFAULT_NON_SUMMER_PRICE_L3)>>]

\* _current_month_energy: the monthly sensor's value, 0.0 for None (in Wh).
CurrentMonthEnergy(val) == IF val = None THEN 0 ELSE Val(val)

\* A level that takes an energy on a limit as the tier above it.
GetCurrentLevelStrict(monthly_energy, cfg) ==
    IF monthly_energy < cfg.limits[1] * 1000 THEN 1
    ELSE IF monthly_energy < cfg.limits[2] * 1000 THEN 2
    ELSE 3

\* _get_current_level for a monthly energy (Wh) and a season configuration.
GetCurrentLevel(monthly_energy, cfg) ==
    LET limit1 == cfg.limits[1] * 1000
        limit2 == cfg.limits[2] * 1000
    IN  IF monthly_energy <= limit1 THEN 1
        ELSE IF monthly_energy <= limit2 THEN 2
        ELSE 3

\* PeacefairPriceSensor.native_value: prices[level - 1] of the Python tuple.
PriceNativeValue(monthly_energy, cfg) ==
    cfg.prices[GetCurrentLevel(monthly_energy, cfg)]

\* An amount of money is a record [q, r] that stands for q + r / CentUnits
\* cents: Wh times a price is a number of 1/CentUnits cents.
CentUnits == (1000 * 160000) \div 100

\* a * b as an amount, for a >= 0 and b >= 0, by halving b (no intermediate
\* value leaves the 32-bit integers of the checker).
RECURSIVE MulAmount(_, _)
MulAmount(a, b) ==
    IF b = 0 THEN [q |-> 0, r |-> 0]
    ELSE LET h == MulAmount(a, b \div 2)
             t == 2 * h.r + (IF b % 2 = 1 THEN a % CentUnits ELSE 0)
         IN  [q |-> 2 * h.q + (IF b % 2 = 1 THEN a \div CentUnits ELSE 0)
                        + (t \div CentUnits),
              r |-> t % CentUnits]

\* a * b as an amount for an a of either sign (b >= 0).
Times(a, b) ==
    IF a >= 0 THEN MulAmount(a, b)
    ELSE LET p == MulAmount(0 - a, b)
         IN  IF p.r = 0 THEN [q |-> 0 - p.q, r |-> 0]
             ELSE [q |-> 0 - p.q - 1, r |-> CentUnits - p.r]

Plus(x, y) ==
    [q |-> x.q + y.q + ((x.r + y.r) \div CentUnits), r |-> (x.r + y.r) % CentUnits]

\* round(total_cost, 2): the nearest cent, ties to the even one.
Round2(x) ==
    IF 2 * x.r < CentUnits THEN x.q
    ELSE IF 2 * x.r > CentUnits THEN x.q + 1
    ELSE IF x.q % 2 = 0 THEN x.q ELSE x.q + 1

\* A cost that is the whole energy at the price of the tier it lies in.
CostNativeValueFlat(energy, cfg) ==
    Round2(Times(energy, IF energy <= cfg.limits[1] * 1000 THEN cfg.prices[1]
                         ELSE IF energy <= cfg.limits[2] * 1000 THEN cfg.prices[2]
                         ELSE cfg.prices[3]))

\* PeacefairCostSensor.native_value for a monthly energy (Wh) and a season
\* configuration: the cost in cents.
CostNativeValue(energy, cfg) ==
    LET limit1 == cfg.limits[1] * 1000
        limit2 == cfg.limits[2] * 1000
        price1 == cfg.prices[1]
        price2 == cfg.prices[2]
        price3 == cfg.prices[3]
        total_cost ==
            IF energy <= limit1 THEN Times(energy, price1)
            ELSE IF energy <= limit2
            THEN Plus(Times(limit1, price1), Times(energy - limit1, price2))
            ELSE Plus(Plus(Times(limit1, price1), Times(limit2 - limit1, price2)),
                      Times(energy - limit2, price3))
    IN  Round2(total_cost)

-----------------------------------------------------------------------------
(* The coordinator and its listeners. *)

\* An update that returns whatever dict the job gave, empty or not.
AsyncUpdateDataUnchecked(res, d) == IF res.kind = "dict" THEN res.dict ELSE d

\* An update without the except branch: the exception of the job is what
\* the caller gets.
AsyncUpdateDataNoExcept(res, d) ==
    IF res.kind = "exception" THEN [raised |-> TRUE]
    ELSE IF Truthy(res.dict) THEN res.dict ELSE d

\* An _async_update_data that keeps a snapshot once it has one.
AsyncUpdateDataSticky(res, d) ==
    IF d # PyNone THEN d
    ELSE IF res.kind = "dict" /\ Truthy(res.dict) THEN res.dict ELSE d

\* What _async_update_data returns: res is what awaiting the executor job
\* gave ("dict": the dict info_gather returned; "exception": the await
\* raised), d is self.data at that moment.
AsyncUpdateData(res, d) ==
    IF res.kind = "dict" /\ Truthy(res.dict) THEN res.dict ELSE d

\* One round of the coordinator's listeners over the sensors that read the
\* monthly energy, in the order sensor.async_setup_entry created them: the
\* monthly sensor writes its state, then the level, price and cost sensors
\* each read the monthly sensor's native_value for their own state.
ListenerRound(start, lrm, attr, d, m) ==
    LET w     == WriteState(start, lrm, attr, d, m)
        level == NativeValue(w.acc.start, w.acc.month, attr, d, m)
        price == NativeValue(level.start, level.month, attr, d, m)
        cost  == NativeValue(price.start, price.month, attr, d, m)
    IN  [start |-> cost.start, month |-> cost.month, out |-> w.acc.out,
         state |-> w.state]

\* A reset_energy that writes whether or not there is data.
ResetAfterHubAlways(d) == "write"

\* "if self.data:" of the coordinator's reset_energy, after the hub's
\* reset_energy returned: the write comes next, or the method ends.
ResetAfterHub(d) == IF Truthy(d) THEN "write" ELSE "idle"

\* A reset that writes its zero under the key the decoder writes.
ResetWriteEnergy(d) == DictSet(d, "energy", 0)

\* self.data[UnitOfEnergy.KILO_WATT_HOUR] = 0.0 of reset_energy: the key is
\* the unit's string, "kWh".
ResetWriteData(d) == DictSet(d, "kWh", 0)

PollKinds ==
    {"ok", "io_exception", "error_response", "no_registers", "wrong_count",
     "raise", "executor_error"}

\* The name under which the history keeps how a read ended.
PollKind(outcome) ==
    IF outcome.kind = "registers"
    THEN (IF Len(outcome.registers) = 9 THEN "ok" ELSE "wrong_count")
    ELSE outcome.kind

\* pollResult while no result of the executor job is held.
NoResult == [kind |-> "dict", dict |-> EmptyDict, how |-> "none", registers |-> <<>>]

hubVars == <<connected, paramName, libKeyword>>

pollVars == <<pcPoll, pollResult>>

sensorVars == <<startEnergy, lastResetMonth, attrNativeValue>>

evalHistory == <<preStart, preMonth, costOut, levelOut, priceOut>>

pollHistory == <<lastGood, lastPoll, pollAfterReset>>

shadowVars == <<shadowStart, shadowMonth, shadowOut>>

hubHistory == <<gatherTrace, probed, resetTrace>>

fleetVars == <<fleet, serviceHandler, fleetLast>>

auxVars == <<pduKeyword, hubHistory, fleetVars, domainData, device>>

\* The devices (config entries) of an installation with several devices.
Devices == {"dev1", "dev2"}

\* const.py: DEFAULT_SCAN_INTERVAL, in seconds.
DEFAULT_SCAN_INTERVAL == 15

\* A config entry that is not set up: it has its options, and no
\* coordinator (no data, no client that could have been sent anything).
NoEntry ==
    [loaded |-> FALSE, options |-> EmptyDict, interval |-> 0, data |-> PyNone,
     sent |-> 0]

\* fleetLast before anything was done to the entries.
NoFleetOp == [op |-> "none", device |-> "none"]

\* resetTrace before the hub's reset_energy was called.
NoResetTrace == [tried |-> <<>>, built |-> "none"]

-----------------------------------------------------------------------------
(* The system: one config entry, from async_setup_entry on. *)

InitEntry ==
    /\ month \in Months
    /\ options = EmptyDict
    /\ data = PyNone
    /\ pcPoll = "idle"
    /\ pollResult = NoResult
    /\ connected = FALSE
    /\ paramName = "unresolved"
    /\ libKeyword \in LibKeywords
    /\ pcReset = "idle"
    /\ startEnergy = None
    /\ lastResetMonth = None
    /\ attrNativeValue = None
    /\ stored = {}
    /\ phase = "setup"
    /\ monthlyOut = None
    /\ costOut = None
    /\ levelOut = None
    /\ priceOut = None
    /\ preStart = None
    /\ preMonth = None
    /\ lastGood = PyNone
    /\ lastPoll = "none"
    /\ resetPublished = FALSE
    /\ pollAfterReset = FALSE
    /\ shadowStart = None
    /\ shadowMonth = None
    /\ shadowOut = None
    /\ gatherTrace = <<>>
    /\ probed = FALSE
    /\ resetTrace = NoResetTrace
    /\ fleet = [d \in Devices |-> NoEntry]
    /\ serviceHandler = "none"
    /\ fleetLast = NoFleetOp
    /\ domainData = Some({})
    /\ device = [healthy |-> FALSE, read |-> None]

\* The installed library accepts the same keyword in its read call and in
\* the constructor of a request.
Init == InitEntry /\ pduKeyword = libKeyword

\* The sensor that is never restarted reads its native_value whenever the
\* real one reads it on live data, with the same data and month, n times:
\* its fields after the reads and what the first read returned.
RECURSIVE ShadowReads(_, _, _, _, _)
ShadowReads(start, lrm, d, m, n) ==
    LET nv == NativeValue(start, lrm, None, d, m)
    IN  IF n = 1 THEN nv
        ELSE LET rest == ShadowReads(nv.start, nv.month, d, m, n - 1)
             IN  [out |-> nv.out, start |-> rest.start, month |-> rest.month]

ShadowFollows(d, m, n) ==
    IF Truthy(d)
    THEN LET sh == ShadowReads(shadowStart, shadowMonth, d, m, n)
         IN  /\ shadowStart' = sh.start
             /\ shadowMonth' = sh.month
             /\ shadowOut' = sh.out
    ELSE UNCHANGED shadowVars

\* The listeners run after data was set to d: the sensors' fields, the
\* stored state and the histories of the reads.
NotifyListeners(d) ==
    LET round == ListenerRound(startEnergy, lastResetMonth, attrNativeValue, d, month)
    IN  /\ startEnergy' = round.start
        /\ lastResetMonth' = round.month
        /\ monthlyOut' = round.out
        /\ stored' = {round.state}
        /\ ShadowFollows(d, month, 4)
        /\ UNCHANGED attrNativeValue

\* The refresh timer fires (or async_config_entry_first_refresh runs):
\* _async_update_data hands info_gather to the executor.
PollStart ==
    /\ pcPoll = "idle"
    /\ phase \in {"setup", "running"}
    /\ pcPoll' = "reading"
    /\ UNCHANGED <<month, options, data, pollResult, hubVars, pcReset, sensorVars,
                   stored, phase, monthlyOut, evalHistory, auxVars, pollHistory, resetPublished,
                   shadowVars>>

\* info_gather runs in the executor: it connects when the client is not
\* connected (conn: whether that works), reads, validates and decodes.
InfoGatherRun ==
    /\ pcPoll = "reading"
    /\ \E outcome \in ReadOutcomes, conn \in BOOLEAN, raisedIn \in {"connect", "read"} :
        /\ (~(connected \/ conn)) => outcome.kind = "raise"
        /\ (outcome.kind # "raise") => raisedIn = "read"
        /\ (raisedIn = "connect") => ~connected
        /\ pollResult' = [kind |-> "dict", dict |-> InfoGather(outcome),
                          how |-> PollKind(outcome), registers |-> outcome.registers]
        /\ connected' = ConnectedAfterGather(outcome)
        /\ paramName' = IF raisedIn = "connect" THEN paramName
                        ELSE NegotiatedParam(paramName, libKeyword, outcome.kind = "raise")
    /\ pcPoll' = "returned"
    /\ UNCHANGED <<month, options, data, libKeyword, pcReset, sensorVars, stored,
                   phase, monthlyOut, evalHistory, auxVars, pollHistory, resetPublished, shadowVars>>

\* Awaiting the executor job raises instead of giving a dict (the except
\* branch of _async_update_data).
ExecutorError ==
    /\ pcPoll = "reading"
    /\ pollResult' = [kind |-> "exception", dict |-> EmptyDict,
                      how |-> "executor_error", registers |-> <<>>]
    /\ pcPoll' = "returned"
    /\ UNCHANGED <<month, options, data, hubVars, pcReset, sensorVars, stored,
                   phase, monthlyOut, evalHistory, auxVars, pollHistory, resetPublished, shadowVars>>

\* _async_update_data returns and the coordinator takes what it returned
\* as its data; once the entities exist, it then runs its listeners.
PollFinish ==
    /\ pcPoll = "returned"
    /\ pcPoll' = "idle"
    /\ data' = AsyncUpdateData(pollResult, data)
    /\ pollResult' = NoResult
    /\ lastPoll' = IF pollResult.how = "ok" THEN "ok" ELSE "failed"
    /\ lastGood' = IF pollResult.how = "ok" THEN data' ELSE lastGood
    /\ pollAfterReset' = (pollAfterReset \/ pollResult.how = "ok")
    /\ IF phase = "setup"
       THEN /\ phase' = "entities"
            /\ UNCHANGED <<sensorVars, stored, monthlyOut, shadowVars, resetPublished>>
       ELSE /\ phase' = phase
            /\ resetPublished' = FALSE
            /\ NotifyListeners(AsyncUpdateData(pollResult, data))
    /\ UNCHANGED <<month, options, hubVars, pcReset, evalHistory, auxVars>>

\* sensor.async_setup_entry: the sensors are created and added; the monthly
\* sensor restores its last state, and each sensor writes its first state.
AddEntities ==
    /\ phase = "entities"
    /\ phase' = "running"
    /\ LET restored == AsyncAddedToHass(stored, data, month)
           reads    == IF stored # {} /\ Val(stored).attributes.start_energy # None
                       THEN 5 ELSE 4
           round    == ListenerRound(restored.start, restored.month, restored.attr,
                                     data, month)
       IN  /\ startEnergy' = round.start
           /\ lastResetMonth' = round.month
           /\ attrNativeValue' = restored.attr
           /\ monthlyOut' = round.out
           /\ stored' = {round.state}
           /\ ShadowFollows(data, month, reads)
    /\ UNCHANGED <<month, options, data, pollVars, hubVars, pcReset, evalHistory, auxVars,
                   pollHistory, resetPublished>>

\* The reset_energy service is called: service_handle calls the
\* coordinator's reset_energy, which enters the hub's reset_energy.
ResetCall ==
    /\ phase = "running"
    /\ pcReset = "idle"
    /\ pcReset' = "hub"
    /\ pollAfterReset' = FALSE
    /\ UNCHANGED <<month, options, data, pollVars, hubVars, sensorVars, stored,
                   phase, monthlyOut, evalHistory, auxVars, lastGood, lastPoll,
                   resetPublished, shadowVars>>

\* ModbusHub.reset_energy: the request is built and executed on the client
\* (which connects when it has to; conn: whether that works).  When execute
\* raises, the exception leaves the coordinator's reset_energy as well.
HubResetEnergy ==
    /\ pcReset = "hub"
    /\ \E ok \in BOOLEAN, conn \in BOOLEAN :
        /\ (~(connected \/ conn)) => ~ok
        /\ connected' = (connected \/ conn)
        /\ pcReset' = IF ok THEN "check" ELSE "idle"
    /\ UNCHANGED <<month, options, data, pollVars, paramName, libKeyword,
                   sensorVars, stored, phase, monthlyOut, evalHistory, auxVars,
                   pollHistory, resetPublished, shadowVars>>

\* "if self.data:" of the coordinator's reset_energy.
ResetCheck ==
    /\ pcReset = "check"
    /\ pcReset' = ResetAfterHub(data)
    /\ UNCHANGED <<month, options, data, pollVars, hubVars, sensorVars, stored,
                   phase, monthlyOut, evalHistory, auxVars, pollHistory, resetPublished, shadowVars>>

\* "self.data[UnitOfEnergy.KILO_WATT_HOUR] = 0.0": the dict that is the
\* coordinator's data is changed in place.
ResetWrite ==
    /\ pcReset = "write"
    /\ pcReset' = "publish"
    /\ data' = ResetWriteData(data)
    /\ UNCHANGED <<month, options, pollVars, hubVars, sensorVars, stored, phase,
                   monthlyOut, evalHistory, auxVars, pollHistory, resetPublished, shadowVars>>

\* "self.async_set_updated_data(self.data)": the data is set to itself and
\* the listeners run.
ResetPublish ==
    /\ pcReset = "publish"
    /\ pcReset' = "idle"
    /\ resetPublished' = TRUE
    /\ NotifyListeners(data)
    /\ UNCHANGED <<month, options, data, pollVars, hubVars, phase, evalHistory, auxVars,
                   pollHistory>>

\* The wall clock passes into another month.
MonthTick ==
    /\ \E m \in Months \ {month} : month' = m
    /\ UNCHANGED <<options, data, pollVars, hubVars, pcReset, sensorVars, stored,
                   phase, monthlyOut, evalHistory, auxVars, pollHistory, resetPublished, shadowVars>>

\* Home Assistant stops and starts again: every object of the integration
\* is created anew by async_setup_entry; only the stored states remain.
Restart ==
    /\ phase = "running"
    /\ phase' = "setup"
    /\ data' = PyNone
    /\ pcPoll' = "idle"
    /\ pollResult' = NoResult
    /\ connected' = FALSE
    /\ paramName' = "unresolved"
    /\ pcReset' = "idle"
    /\ startEnergy' = None
    /\ lastResetMonth' = None
    /\ attrNativeValue' = None
    /\ lastGood' = PyNone
    /\ lastPoll' = "none"
    /\ resetPublished' = FALSE
    /\ pollAfterReset' = FALSE
    /\ UNCHANGED <<month, options, libKeyword, stored, monthlyOut, evalHistory, auxVars,
                   shadowVars>>

Next ==
    \/ PollStart
    \/ InfoGatherRun
    \/ ExecutorError
    \/ PollFinish
    \/ AddEntities
    \/ ResetCall
    \/ HubResetEnergy
    \/ ResetCheck
    \/ ResetWrite
    \/ ResetPublish
    \/ MonthTick
    \/ Restart

Spec == Init /\ [][Next]_vars

-----------------------------------------------------------------------------
(* Properties of the coordinator's cache (checked on Spec). *)

\* The step in which _async_update_data returns and the coordinator takes
\* the result (Restart also leaves pcPoll idle, but forgets the last poll).
PollFinishStep == pcPoll = "returned" /\ pcPoll' = "idle" /\ lastPoll' # "none"

\* C1: a poll that fails, in whichever way (the read gives an I/O exception
\* object, an error-flagged response, an object without registers or a
\* block of the wrong length, or something raises), leaves the coordinator's
\* data exactly as it was; when a poll succeeded before, the data still
\* holds every field of the last good snapshot with its value, so it is
\* neither empty nor partial.
FailedPollKeepsSnapshot ==
    [][(PollFinishStep /\ pollResult.how # "ok")
        => /\ pollResult.how \in PollKinds \ {"ok"}
           /\ data' = data
           /\ lastGood # PyNone
                => /\ Truthy(data')
                   /\ \A k \in DOMAIN lastGood :
                        k \in DOMAIN data' /\ data'[k] = lastGood[k]]_vars

\* C1: a poll has failed after a successful one and the data is the
\* snapshot of the successful one.
FailedPollKeepsSnapshotWitness ==
    /\ pcPoll = "idle"
    /\ lastPoll = "failed"
    /\ lastGood # PyNone
    /\ data = lastGood
    /\ data["energy"] > 0

\* C2: once reset_energy has published on a cached snapshot (and no poll
\* has finished since), the cached lifetime energy, the field "energy" that
\* the decoder writes and the sensors read, is 0.
ResetZeroesCachedEnergy ==
    resetPublished => ("energy" \in DOMAIN data /\ data["energy"] = 0)

SnapshotFields ==
    {"voltage", "current", "power", "energy", "frequency", "power_factor"}

\* C13: whichever way a poll fails (the connect or the read raises, which
\* includes a raise while the address keyword is tried out, the response is
\* no good block, or the executor job itself raises), the step that ends
\* the poll cycle leaves the data none or a snapshot
\* with all its fields (the last good one when there is one), never the
\* exception.
NoPollErrorEscapes ==
    [][(PollFinishStep /\ pollResult.how # "ok")
        => /\ pollResult.kind \in {"dict", "exception"}
           /\ lastPoll' = "failed"
           /\ data' = PyNone \/ SnapshotFields \subseteq DOMAIN data'
           /\ lastGood = PyNone => data' = PyNone
           /\ lastGood # PyNone => \A k \in SnapshotFields : data'[k] = lastGood[k]]_vars

\* C13: in a set-up integration every poll so far has failed, the client is
\* not connected, and the data is none.
NoPollErrorEscapesWitness ==
    /\ phase = "running"
    /\ pcPoll = "idle"
    /\ lastPoll = "failed"
    /\ ~connected
    /\ data = PyNone

\* C23: whatever polls, month changes, resets and restarts there were, the
\* monthly sensor's last value, the value it restored and the state kept
\* for the next restore are none or not negative.
MonthlyNeverNegative ==
    /\ monthlyOut = None \/ Val(monthlyOut) >= 0
    /\ attrNativeValue = None \/ Val(attrNativeValue) >= 0
    /\ \A st \in stored : st.state.text = "number" => st.state.number >= 0

\* C23: after a restart the sensor, restored with a baseline above the
\* total the device now reports, has read that total and reports zero.
MonthlyNeverNegativeWitness ==
    /\ phase = "running"
    /\ attrNativeValue # None /\ Val(attrNativeValue) > 0
    /\ Truthy(data) /\ data.energy = 0
    /\ monthlyOut = Some(0)
    /\ startEnergy = Some(0)

\* C26: when reset_energy, after the hub has executed its request, finds
\* no data, it ends there: the data stays none, nothing is published and
\* the sensors' fields and the stored state are left alone.
ResetWithoutSnapshot ==
    [][(pcReset = "check" /\ pcReset' # "check" /\ phase' = phase /\ data = PyNone)
        => /\ pcReset' = "idle"
           /\ data' = PyNone
           /\ resetPublished' = resetPublished
           /\ UNCHANGED <<sensorVars, stored, monthlyOut>>]_vars

\* C26: no poll has succeeded, the service was called and the hub has
\* executed the reset request.
ResetWithoutSnapshotWitness ==
    /\ pcReset = "check"
    /\ data = PyNone
    /\ lastGood = PyNone
    /\ lastPoll = "failed"

\* The ways a read returns a response that is not a block of 9 registers.
MalformedKinds == {"io_exception", "error_response", "no_registers", "wrong_count"}

\* C16: a read that returns an I/O-exception object, an error-flagged
\* response, a response without registers or one with another number of
\* registers than 9 makes info_gather return a dict without any field, and
\* the poll that ends with it is a failed one that leaves the coordinator's
\* data as it was.
MalformedResponseFails ==
    [][/\ (pcPoll = "reading" /\ pcPoll' = "returned"
            /\ pollResult'.how \in MalformedKinds)
           => pollResult'.kind = "dict" /\ DOMAIN pollResult'.dict = {}
       /\ (PollFinishStep /\ pollResult.how \in MalformedKinds)
           => data' = data /\ lastGood' = lastGood /\ lastPoll' = "failed"]_vars

\* C16: a read returned 8 registers while the coordinator holds a snapshot.
MalformedResponseFailsWitness ==
    /\ pcPoll = "returned"
    /\ pollResult.how = "wrong_count"
    /\ Len(pollResult.registers) = 8
    /\ Truthy(data)

\* C8: whenever the set-up integration holds live data, the monthly sensor
\* that was restored from its stored state has returned the same value, and
\* holds the same baseline energy and month, as a sensor that has read the
\* same data and months and was never restarted.
RestartRoundTrip ==
    (phase = "running" /\ Truthy(data))
        => /\ monthlyOut = shadowOut
           /\ startEnergy = shadowStart
           /\ lastResetMonth = shadowMonth

\* C8: a sensor that was restored while no live data was there has since
\* read live data and returned a positive monthly energy.
RestartRoundTripWitness ==
    /\ phase = "running"
    /\ attrNativeValue # None
    /\ Truthy(data)
    /\ monthlyOut # None
    /\ Val(monthlyOut) > 0
    /\ monthlyOut = shadowOut

\* What the monthly sensor reports in the current state.
ReportedMonthly ==
    NativeValue(startEnergy, lastResetMonth, attrNativeValue, data, month).out

\* C9 (as stated): restoring sets nothing but the baseline pair, and before
\* the first successful poll of a run the monthly sensor reports no value.
RestoreSetsOnlyBaseline ==
    (phase = "running" /\ lastGood = PyNone)
        => (attrNativeValue = None /\ ReportedMonthly = None)

\* C9 (amended): before the first successful poll of a run, the monthly
\* sensor holds the baseline pair of the stored record and reports the
\* monthly value of the stored record (the last value before the restart),
\* or no value when no value was stored.
RestoreReportsStoredValue ==
    (phase = "running" /\ lastGood = PyNone)
        => /\ startEnergy = shadowStart
           /\ lastResetMonth = shadowMonth
           /\ attrNativeValue = shadowOut
           /\ ReportedMonthly = shadowOut

\* C9: after a restart no poll has succeeded yet and the sensor reports the
\* positive monthly value of the stored record.
RestoreReportsStoredValueWitness ==
    /\ phase = "running"
    /\ lastGood = PyNone
    /\ stored # {}
    /\ ReportedMonthly # None
    /\ Val(ReportedMonthly) > 0
    /\ ReportedMonthly = FloatOfState(Val(stored).state)

-----------------------------------------------------------------------------
(* The monthly sensor's native_value on its own: it is read with whatever  *)
(* the coordinator holds (no data, or a snapshot of any lifetime energy)   *)
(* in whatever month, from every state of its fields it can get into.      *)

\* The lifetime energy ranges over 0 .. MaxAccSteps steps of EnergyStep Wh.
MaxAccSteps == 5

AccEnergies == {i * EnergyStep : i \in 0 .. MaxAccSteps}

InitAcc == Init /\ libKeyword = "slave"

\* What the coordinator can hold when the sensor is read.
AccData == {PyNone} \cup {Decode(Block(e)) : e \in AccEnergies}

\* One read of native_value, with any data of the coordinator in any month.
Evaluate ==
    \E d \in AccData, m \in Months :
        LET nv == NativeValue(startEnergy, lastResetMonth, attrNativeValue, d, m)
        IN  /\ data' = d
            /\ month' = m
            /\ preStart' = startEnergy
            /\ preMonth' = lastResetMonth
            /\ monthlyOut' = nv.out
            /\ startEnergy' = nv.start
            /\ lastResetMonth' = nv.month
            /\ UNCHANGED <<options, pollVars, hubVars, pcReset, attrNativeValue,
                           stored, phase, costOut, levelOut, priceOut, pollHistory,
                           resetPublished, shadowVars, auxVars>>

NextAcc == Evaluate

SpecAcc == InitAcc /\ [][NextAcc]_vars

\* C25: after a read of native_value, a second read with the same data in
\* the same month returns what the first returned and leaves the baseline
\* energy and the baseline month as the first left them.
EvaluationIdempotent ==
    LET again == NativeValue(startEnergy, lastResetMonth, attrNativeValue, data, month)
    IN  /\ again.out = monthlyOut
        /\ again.start = startEnergy
        /\ again.month = lastResetMonth

\* C25: the last read was the first one in a new month, with a lifetime
\* energy above the old baseline: it moved the baseline and returned 0.
EvaluationIdempotentWitness ==
    /\ Truthy(data)
    /\ preStart # None /\ preMonth # None
    /\ preMonth # Some(month)
    /\ data["energy"] > Val(preStart)
    /\ startEnergy = Some(data["energy"])
    /\ monthlyOut = Some(0)

\* The last read was one with live data and a baseline of the month it was
\* read in.
ReadInBaselineMonth ==
    /\ Truthy(data)
    /\ preStart # None
    /\ preMonth = Some(month)

\* C4: a read in the baseline's month with a lifetime energy below the
\* baseline energy returns 0, makes that energy the baseline and leaves the
\* baseline month as it was.
DeviceResetRebaselines ==
    (ReadInBaselineMonth /\ data["energy"] < Val(preStart))
        => /\ monthlyOut = Some(0)
           /\ startEnergy = Some(data["energy"])
           /\ lastResetMonth = preMonth

\* C4: such a read has happened.
DeviceResetRebaselinesWitness ==
    /\ ReadInBaselineMonth
    /\ data["energy"] < Val(preStart)
    /\ startEnergy = Some(data["energy"])
    /\ monthlyOut = Some(0)

\* C5: a read in a month other than the baseline month returns 0, makes the
\* lifetime energy the baseline and the month the baseline month, whether
\* the energy is above or below the old baseline.
MonthRolloverRebaselines ==
    (Truthy(data) /\ preStart # None /\ preMonth # None /\ Val(preMonth) # month)
        => /\ monthlyOut = Some(0)
           /\ startEnergy = Some(data["energy"])
           /\ lastResetMonth = Some(month)

\* C5: a read in another month with an energy below the old baseline has
\* happened.
MonthRolloverRebaselinesWitness ==
    /\ Truthy(data)
    /\ preStart # None
    /\ preMonth # None
    /\ Val(preMonth) # month
    /\ data["energy"] < Val(preStart)
    /\ lastResetMonth = Some(month)

\* C6: a read with live data while the baseline energy or the baseline
\* month is absent returns 0 and sets both, to the lifetime energy and to
\* the month.
ColdStartSetsBaseline ==
    (Truthy(data) /\ (preStart = None \/ preMonth = None))
        => /\ monthlyOut = Some(0)
           /\ startEnergy = Some(data["energy"])
           /\ lastResetMonth = Some(month)

\* C6: the first read with live data has happened, at a positive energy.
ColdStartSetsBaselineWitness ==
    /\ Truthy(data)
    /\ preStart = None
    /\ preMonth = None
    /\ data["energy"] > 0
    /\ startEnergy = Some(data["energy"])
    /\ monthlyOut = Some(0)

\* C7: a read in the baseline's month with a lifetime energy not below the
\* baseline returns the energy less the baseline and changes neither the
\* baseline energy nor the baseline month.
NormalAccumulation ==
    (ReadInBaselineMonth /\ data["energy"] >= Val(preStart))
        => /\ monthlyOut = Some(data["energy"] - Val(preStart))
           /\ startEnergy = preStart
           /\ lastResetMonth = preMonth

\* C7: such a read has returned a positive monthly energy.
NormalAccumulationWitness ==
    /\ ReadInBaselineMonth
    /\ data["energy"] > Val(preStart)
    /\ monthlyOut = Some(data["energy"] - Val(preStart))
    /\ startEnergy = preStart

-----------------------------------------------------------------------------
(* The cost sensor's native_value on its own: it is read with any options  *)
(* the options form can have stored, in any month, after the monthly       *)
(* sensor has read any lifetime energy.                                    *)

\* Small lifetime energies range over 0 .. MaxCostSteps steps of EnergyStep
\* Wh; the others lie on the default limits and one step above them.
MaxCostSteps == 6

CostEnergies ==
    {i * EnergyStep : i \in 0 .. MaxCostSteps}
    \cup {lim * 1000 + j * EnergyStep :
            lim \in {DEFAULT_SUMMER_TIER1, DEFAULT_SUMMER_TIER2,
                     DEFAULT_NON_SUMMER_TIER1, DEFAULT_NON_SUMMER_TIER2},
            j \in {0, 1}}

\* Options as the form stores the four limits (whole kWh; the form takes
\* any integers).
Table(s1, s2, n1, n2) ==
    [k \in {"summer_tier1_limit", "summer_tier2_limit",
            "non_summer_tier1_limit", "non_summer_tier2_limit"} |->
        IF k = "summer_tier1_limit" THEN s1
        ELSE IF k = "summer_tier2_limit" THEN s2
        ELSE IF k = "non_summer_tier1_limit" THEN n1
        ELSE n2]

\* No options, small limits, and limits in the other order or equal.
CostOptions == {EmptyDict, Table(1, 2, 2, 3), Table(2, 1, 1, 1)}

InitCost == Init /\ libKeyword = "slave"

\* One read of the cost sensor's native_value: it reads the monthly
\* sensor's native_value and the season's configuration.
CostRead ==
    \E opts \in CostOptions, m \in Months,
       d \in {PyNone} \cup {Decode(Block(e)) : e \in CostEnergies} :
        LET nv == NativeValue(startEnergy, lastResetMonth, attrNativeValue, d, m)
        IN  /\ options' = opts
            /\ month' = m
            /\ data' = d
            /\ preStart' = startEnergy
            /\ preMonth' = lastResetMonth
            /\ monthlyOut' = nv.out
            /\ startEnergy' = nv.start
            /\ lastResetMonth' = nv.month
            /\ costOut' = Some(CostNativeValue(CurrentMonthEnergy(nv.out),
                                               GetSeasonConfig(opts, m)))
            /\ UNCHANGED <<pollVars, hubVars, pcReset, attrNativeValue, stored,
                           phase, levelOut, priceOut, pollHistory, resetPublished,
                           shadowVars, auxVars>>

NextCost == CostRead

SpecCost == InitCost /\ [][NextCost]_vars

\* The monthly energy (Wh) the last read of the cost sensor worked on.
CostEnergy == CurrentMonthEnergy(monthlyOut)

\* The limits (Wh) and prices of the season the last read was made in.
CostLimit1 == GetSeasonConfig(options, month).limits[1] * 1000

CostLimit2 == GetSeasonConfig(options, month).limits[2] * 1000

CostPrice1 == GetSeasonConfig(options, month).prices[1]

CostPrice2 == GetSeasonConfig(options, month).prices[2]

CostPrice3 == GetSeasonConfig(options, month).prices[3]

\* C10: the cost of a monthly energy c under the season's limits t1, t2 and
\* prices p1, p2, p3 is, rounded to the cent, c*p1 when c <= t1, otherwise
\* t1*p1 + (c - t1)*p2 when c <= t2, otherwise t1*p1 + (t2 - t1)*p2 +
\* (c - t2)*p3 (the cases in this order): each bracket is paid at its own
\* price, and an energy on a limit is paid as the lower tier, at c = t1
\* wholly at p1 and at c = t2 with nothing at p3.
ProgressiveCost ==
    costOut # None
        => /\ Val(costOut) =
                Round2(IF CostEnergy <= CostLimit1
                       THEN Times(CostEnergy, CostPrice1)
                       ELSE IF CostEnergy <= CostLimit2
                       THEN Plus(Times(CostLimit1, CostPrice1),
                                 Times(CostEnergy - CostLimit1, CostPrice2))
                       ELSE Plus(Plus(Times(CostLimit1, CostPrice1),
                                      Times(CostLimit2 - CostLimit1, CostPrice2)),
                                 Times(CostEnergy - CostLimit2, CostPrice3)))
           /\ CostEnergy = CostLimit1
                => Val(costOut) = Round2(Times(CostLimit1, CostPrice1))
           /\ (CostEnergy = CostLimit2 /\ CostLimit1 <= CostLimit2)
                => Val(costOut) =
                     Round2(Plus(Times(CostLimit1, CostPrice1),
                                 Times(CostLimit2 - CostLimit1, CostPrice2)))

\* C10: a cost was read for an energy in the third tier of a table with
\* t1 < t2, and it is below that energy at the third tier's price.
ProgressiveCostWitness ==
    /\ costOut # None
    /\ CostLimit1 < CostLimit2
    /\ CostEnergy > CostLimit2
    /\ Val(costOut) < Round2(Times(CostEnergy, CostPrice3))

-----------------------------------------------------------------------------
(* The level and the price sensor on their own: they are read with any     *)
(* options, in any month, after the monthly sensor has read any lifetime   *)
(* energy.                                                                 *)

\* The text of a list of months, as the option summer_months holds it.
MonthsText(seq) == [i \in DOMAIN seq |-> [isInt |-> TRUE, int |-> seq[i]]]

\* The options b laid over the options a.
Merge(a, b) ==
    [k \in (DOMAIN a) \cup (DOMAIN b) |-> IF k \in DOMAIN b THEN b[k] ELSE a[k]]

\* No options; November and December as summer with small limits and
\* summer prices of its own; a text of summer months that is no list of
\* integers; limits in the other order.
TierOptions ==
    {EmptyDict,
     Merge(Table(1, 2, 2, 3),
           [summer_months |-> MonthsText(<<11, 12>>),
            summer_price_level_1 |-> 80000,
            summer_price_level_2 |-> 96000,
            summer_price_level_3 |-> 112000]),
     Merge(Table(1, 2, 2, 3),
           [summer_months |-> <<[isInt |-> TRUE, int |-> 11],
                                [isInt |-> FALSE, int |-> 0]>>]),
     Table(2, 1, 1, 1)}

InitTier == Init /\ libKeyword = "slave"

\* One read of the level sensor's native_value and one of the price
\* sensor's: each reads the monthly sensor's native_value and the season's
\* configuration.
TierRead ==
    \E opts \in TierOptions, m \in Months,
       d \in {PyNone} \cup {Decode(Block(e)) : e \in CostEnergies} :
        LET forLevel == NativeValue(startEnergy, lastResetMonth, attrNativeValue, d, m)
            forPrice == NativeValue(forLevel.start, forLevel.month, attrNativeValue, d, m)
            cfg      == GetSeasonConfig(opts, m)
        IN  /\ options' = opts
            /\ month' = m
            /\ data' = d
            /\ preStart' = startEnergy
            /\ preMonth' = lastResetMonth
            /\ monthlyOut' = forPrice.out
            /\ startEnergy' = forPrice.start
            /\ lastResetMonth' = forPrice.month
            /\ levelOut' = Some(GetCurrentLevel(CurrentMonthEnergy(forLevel.out), cfg))
            /\ priceOut' = Some(PriceNativeValue(CurrentMonthEnergy(forPrice.out), cfg))
            /\ UNCHANGED <<pollVars, hubVars, pcReset, attrNativeValue, stored,
                           phase, costOut, pollHistory, resetPublished, shadowVars, auxVars>>

NextTier == TierRead

SpecTier == InitTier /\ [][NextTier]_vars

\* The summer months the options configure: the integers of the option's
\* list, the default list when the option is absent or no list of integers.
TierSummerMonths ==
    IF "summer_months" \in DOMAIN options
       /\ \A i \in DOMAIN options["summer_months"] : options["summer_months"][i].isInt
    THEN {options["summer_months"][i].int : i \in DOMAIN options["summer_months"]}
    ELSE {5, 6, 7, 8, 9, 10}

TierIsSummer == month \in TierSummerMonths

\* The limits (Wh) of the season of the last read.
TierLimit1 ==
    1000 * (IF TierIsSummer
            THEN OptionGet(options, "summer_tier1_limit", DEFAULT_SUMMER_TIER1)
            ELSE OptionGet(options, "non_summer_tier1_limit", DEFAULT_NON_SUMMER_TIER1))

TierLimit2 ==
    1000 * (IF TierIsSummer
            THEN OptionGet(options, "summer_tier2_limit", DEFAULT_SUMMER_TIER2)
            ELSE OptionGet(options, "non_summer_tier2_limit", DEFAULT_NON_SUMMER_TIER2))

\* The price of tier n in the season of the last read.
TierPrice(n) ==
    IF TierIsSummer
    THEN (IF n = 1 THEN OptionGet(options, "summer_price_level_1", DEFAULT_SUMMER_PRICE_L1)
          ELSE IF n = 2
          THEN OptionGet(options, "summer_price_level_2", DEFAULT_SUMMER_PRICE_L2)
          ELSE OptionGet(options, "summer_price_level_3", DEFAULT_SUMMER_PRICE_L3))
    ELSE (IF n = 1
          THEN OptionGet(options, "non_summer_price_level_1", DEFAULT_NON_SUMMER_PRICE_L1)
          ELSE IF n = 2
          THEN OptionGet(options, "non_summer_price_level_2", DEFAULT_NON_SUMMER_PRICE_L2)
          ELSE OptionGet(options, "non_summer_price_level_3", DEFAULT_NON_SUMMER_PRICE_L3))

\* C11: with the limits t1, t2 of the season of the month (summer exactly
\* when the month is among the configured summer months), the level of a
\* monthly energy c is 1 when c <= t1, 2 when t1 < c <= t2 and 3 otherwise,
\* and the price reported is that season's price of that level.
TierClassification ==
    levelOut # None
        => LET c == CurrentMonthEnergy(monthlyOut)
           IN  /\ (c <= TierLimit1) => levelOut = Some(1)
               /\ (TierLimit1 < c /\ c <= TierLimit2) => levelOut = Some(2)
               /\ ~(c <= TierLimit1) /\ ~(TierLimit1 < c /\ c <= TierLimit2)
                    => levelOut = Some(3)
               /\ priceOut = Some(TierPrice(Val(levelOut)))

\* C11: in a month that is summer by the option's list only, an energy in
\* the second tier was read and the price is the summer price of that tier,
\* which is not the other season's.
TierClassificationWitness ==
    /\ levelOut = Some(2)
    /\ "summer_months" \in DOMAIN options
    /\ TierIsSummer
    /\ month \notin {5, 6, 7, 8, 9, 10}
    /\ priceOut = Some(TierPrice(2))
    /\ Val(priceOut) # OptionGet(options, "non_summer_price_level_2",
                                 DEFAULT_NON_SUMMER_PRICE_L2)

\* C22: the configuration the sensors work with, for the options the form
\* took (or none) and the month of the read, has a first limit that is not
\* above its second limit.
TierLimitsOrdered ==
    LET cfg == GetSeasonConfig(options, month)
    IN  cfg.limits[1] <= cfg.limits[2]

-----------------------------------------------------------------------------
(* The decoder on its own: info_gather gets any block of 9 registers.      *)

\* The largest high word of the energy pair in the blocks (the blocks hold
\* the largest register, 65535, as a low word and as a single register).
MaxHighWord == 1000

\* Blocks of 9 registers: the documented example and its variations in
\* every register that is decoded alone or as the word of a pair.
DecodeBlocks ==
    {<<r1, r2, r3, 50, r5, r6, r7, 500, r9>> :
        r1 \in {2300, 65535}, r2 \in {100, 65535}, r3 \in {0, 1}, r5 \in {0, 2},
        r6 \in {0, 65535}, r7 \in {0, 1, MaxHighWord}, r9 \in {95, 100}}

InitDecode == Init /\ libKeyword = "slave"

\* info_gather reads the block b and returns what it decodes from it.
DecodeBlock ==
    \E b \in DecodeBlocks :
        /\ pcPoll' = "returned"
        /\ pollResult' = [kind |-> "dict",
                          dict |-> InfoGather([kind |-> "registers", registers |-> b]),
                          how |-> "ok", registers |-> b]
        /\ connected' = TRUE
        /\ UNCHANGED <<month, options, data, paramName, libKeyword, pcReset,
                       sensorVars, stored, phase, monthlyOut, evalHistory,
                       pollHistory, resetPublished, shadowVars, auxVars>>

NextDecode == DecodeBlock

SpecDecode == InitDecode /\ [][NextDecode]_vars

\* C12: the snapshot decoded from a block r of 9 registers (r[1] is the
\* first) has, in thousandths of the units, voltage r[1]/10, current
\* (r[3]*65536 + r[2])/1000, power (r[5]*65536 + r[4])/10, energy
\* (r[7]*65536 + r[6])/1000, frequency r[8]/10 and power factor r[9]/100,
\* with the whole value of each pair, whatever was decoded before.
DecodeFormula ==
    pollResult.how = "ok"
        => LET r == pollResult.registers
           IN  pollResult.dict =
                 [voltage      |-> r[1] * 100,
                  current      |-> r[3] * 65536 + r[2],
                  power        |-> (r[5] * 65536 + r[4]) * 100,
                  energy       |-> r[7] * 65536 + r[6],
                  frequency    |-> r[8] * 100,
                  power_factor |-> r[9] * 10]

\* C12: the documented example was decoded: 230.0 V, 0.1 A, 5.0 W, 0.0 kWh,
\* 50.0 Hz, 0.95.
DecodeFormulaWitness ==
    /\ pollResult.how = "ok"
    /\ pollResult.registers = <<2300, 100, 0, 50, 0, 0, 0, 500, 95>>
    /\ pollResult.dict = [voltage |-> 230000, current |-> 100, power |-> 5000,
                         energy |-> 0, frequency |-> 50000, power_factor |-> 950]

------------------------------------------------------------------------------
(* Several devices: each config entry is set up by async_setup_entry with a
   coordinator of its own, and each set-up registers the reset service. *)

\* The reset commands a client is sent in this model.
MaxResets == 2

\* The options an entry can have for its scan interval.
ScanIntervalOptions == {EmptyDict, [scan_interval |-> 2 * DEFAULT_SCAN_INTERVAL]}

\* async_setup_entry up to the first refresh: the entry's coordinator is
\* created with the interval of the options and gets its first data.
SetupEntry(entry, first) ==
    [entry EXCEPT !.loaded = TRUE,
                  !.interval = OptionGet(entry.options, "scan_interval",
                                         DEFAULT_SCAN_INTERVAL),
                  !.data = first,
                  !.sent = 0]

\* The device whose coordinator service_handle resets, given the device of
\* the entry that registered the handler and the device of the call's
\* target entity: the coordinator of the closure.
ServiceHandle(registeredBy, target) == registeredBy

\* An update listener that leaves the interval alone when the option is
\* absent.
UpdateListenerNoDefault(entry) ==
    [entry EXCEPT !.interval = OptionGet(entry.options, "scan_interval",
                                         entry.interval)]

\* update_listener: the interval of the entry's coordinator is set from
\* the entry's options.
UpdateListener(entry) ==
    [entry EXCEPT !.interval = OptionGet(entry.options, "scan_interval",
                                         DEFAULT_SCAN_INTERVAL)]

\* PeacefairCoordinator.reset_energy on an entry's coordinator: the hub
\* executes the request on the coordinator's client (ok: it returned), and
\* then the cached data is written when there is any.
CoordinatorResetEnergy(entry, ok) ==
    [entry EXCEPT !.sent = entry.sent + 1,
                  !.data = IF ok /\ Truthy(entry.data)
                           THEN ResetWriteData(entry.data) ELSE entry.data]

\* The entry ids hass.data[DOMAIN] holds; none when the key is not there.
RegistryEntries(dd) == IF dd = None THEN {} ELSE Val(dd)

\* "hass.data[DOMAIN][config_entry.entry_id] = {...}" of async_setup_entry:
\* a KeyError when hass.data has no DOMAIN key.
RegisterEntry(dd, d) ==
    IF dd = None THEN [raised |-> TRUE, registry |-> dd]
    ELSE [raised |-> FALSE, registry |-> Some(Val(dd) \cup {d})]

\* The pops of async_unload_entry: the entry's, and DOMAIN's when no entry
\* is left.
UnregisterEntry(dd, d) ==
    LET rest == Val(dd) \ {d}
    IN  IF rest = {} THEN None ELSE Some(rest)

InitFleet == Init /\ libKeyword = "slave"

\* An entry is set up: its coordinator is created, registered in
\* hass.data[DOMAIN] and refreshed, and the reset service is registered with
\* a handler that calls this coordinator.  When the registration raises,
\* the set-up ends there and the entry is not loaded.
FleetSetupEntry ==
    /\ \E d \in Devices, outcome \in ReadOutcomes :
        LET reg == RegisterEntry(domainData, d)
        IN  /\ ~fleet[d].loaded
            /\ domainData' = reg.registry
            /\ IF reg.raised
               THEN /\ fleetLast' = [op |-> "setup_error", device |-> d]
                    /\ UNCHANGED <<fleet, serviceHandler>>
               ELSE /\ fleet' = [fleet EXCEPT ![d] =
                                    SetupEntry(fleet[d],
                                               AsyncUpdateData([kind |-> "dict",
                                                                dict |-> InfoGather(outcome)],
                                                               PyNone))]
                    /\ serviceHandler' = d
                    /\ fleetLast' = [op |-> "setup", device |-> d]
    /\ UNCHANGED <<month, options, data, pollVars, hubVars, pcReset, sensorVars,
                   stored, phase, monthlyOut, evalHistory, pollHistory,
                   resetPublished, shadowVars, pduKeyword, hubHistory, device>>

\* A set-up entry is unloaded (its platform unloads): the entry is taken
\* out of hass.data[DOMAIN]; its coordinator is dropped.  The reset service
\* stays registered.
FleetUnloadEntry ==
    /\ \E d \in Devices :
        /\ fleet[d].loaded
        /\ fleet' = [fleet EXCEPT ![d] = [NoEntry EXCEPT !.options = fleet[d].options]]
        /\ domainData' = UnregisterEntry(domainData, d)
        /\ fleetLast' = [op |-> "unload", device |-> d]
    /\ UNCHANGED <<month, options, data, pollVars, hubVars, pcReset, sensorVars,
                   stored, phase, monthlyOut, evalHistory, pollHistory,
                   resetPublished, shadowVars, pduKeyword, hubHistory, device,
                   serviceHandler>>

\* A poll cycle of one entry's coordinator.
FleetPoll ==
    /\ \E d \in Devices, outcome \in ReadOutcomes :
        /\ fleet[d].loaded
        /\ fleet' = [fleet EXCEPT ![d].data =
                        AsyncUpdateData([kind |-> "dict",
                                         dict |-> InfoGather(outcome)],
                                        fleet[d].data)]
        /\ fleetLast' = [op |-> "poll", device |-> d]
    /\ UNCHANGED <<month, options, data, pollVars, hubVars, pcReset, sensorVars,
                   stored, phase, monthlyOut, evalHistory, pollHistory,
                   resetPublished, shadowVars, pduKeyword, hubHistory, domainData, device,
                   serviceHandler>>

\* The options of a set-up entry are changed: the entry gets the new
\* options and its update listener runs.
FleetOptionsUpdate ==
    /\ \E d \in Devices, opts \in ScanIntervalOptions :
        /\ fleet[d].loaded
        /\ fleet' = [fleet EXCEPT ![d] =
                        UpdateListener([fleet[d] EXCEPT !.options = opts])]
        /\ fleetLast' = [op |-> "options", device |-> d]
    /\ UNCHANGED <<month, options, data, pollVars, hubVars, pcReset, sensorVars,
                   stored, phase, monthlyOut, evalHistory, pollHistory,
                   resetPublished, shadowVars, pduKeyword, hubHistory, domainData, device,
                   serviceHandler>>

\* The reset_energy service is called with an entity of a set-up device as
\* its target: the registered handler runs.
FleetResetService ==
    /\ serviceHandler # "none"
    /\ \E target \in Devices, ok \in BOOLEAN :
        LET d == ServiceHandle(serviceHandler, target)
        IN  /\ fleet[target].loaded
            /\ fleet[d].sent < MaxResets
            /\ fleet' = [fleet EXCEPT ![d] = CoordinatorResetEnergy(fleet[d], ok)]
            /\ fleetLast' = [op |-> "reset", device |-> target]
    /\ UNCHANGED <<month, options, data, pollVars, hubVars, pcReset, sensorVars,
                   stored, phase, monthlyOut, evalHistory, pollHistory,
                   resetPublished, shadowVars, pduKeyword, hubHistory, domainData, device,
                   serviceHandler>>

NextFleet ==
    \/ FleetSetupEntry
    \/ FleetUnloadEntry
    \/ FleetPoll
    \/ FleetOptionsUpdate
    \/ FleetResetService

SpecFleet == InitFleet /\ [][NextFleet]_vars

\* A step in which a reset request is executed on some client.
FleetResetStep ==
    /\ fleetLast'.op = "reset"
    /\ \E d \in Devices : fleet'[d].sent = fleet[d].sent + 1

\* C14: a reset service call that targets device D has the request
\* executed on D's client, once, and leaves the coordinator and the
\* client of every other device as they were.
ResetReachesTarget ==
    [][FleetResetStep
        => LET target == fleetLast'.device
           IN  /\ fleet'[target].sent = fleet[target].sent + 1
               /\ \A d \in Devices \ {target} : fleet'[d] = fleet[d]]_vars

\* A step that is an attempt to set an entry up.
FleetSetupStep ==
    /\ fleetLast'.op \in {"setup", "setup_error"}
    /\ fleetLast' # fleetLast \/ fleet' # fleet

\* A step in which an entry is unloaded.
FleetUnloadStep ==
    /\ fleetLast'.op = "unload"
    /\ fleet' # fleet

\* C24: setting an entry up, after whatever set-ups and unloads, leaves
\* the entry loaded with its id in hass.data[DOMAIN] and the other ids as
\* they were, and unloading an entry takes only its id out.
RegistryFollowsEntries ==
    [][/\ FleetSetupStep
           => LET d == fleetLast'.device
              IN  /\ fleet'[d].loaded
                  /\ RegistryEntries(domainData') = RegistryEntries(domainData) \cup {d}
       /\ FleetUnloadStep
           => LET d == fleetLast'.device
              IN  RegistryEntries(domainData') = RegistryEntries(domainData) \ {d}]_vars

\* A step in which the options of an entry are updated.
FleetOptionsStep ==
    /\ fleetLast'.op = "options"
    /\ fleet' # fleet \/ fleetLast' # fleetLast

\* C15: an update of the options of an entry leaves the entry's
\* coordinator with the interval of the new options, 15 seconds when the
\* options have none, and with the data and the client it had; the other
\* entries are as they were.
IntervalFollowsOptions ==
    [][FleetOptionsStep
        => LET d == fleetLast'.device
           IN  /\ fleet'[d].interval =
                     (IF "scan_interval" \in DOMAIN fleet'[d].options
                      THEN fleet'[d].options.scan_interval ELSE 15)
               /\ fleet'[d].loaded /\ fleet[d].loaded
               /\ fleet'[d].data = fleet[d].data
               /\ fleet'[d].sent = fleet[d].sent
               /\ \A o \in Devices \ {d} : fleet'[o] = fleet[o]]_vars

\* C15: an entry that polled at the interval of its options, has good
\* data and a client that was sent a reset, had the option removed and
\* polls at the default interval.
IntervalFollowsOptionsWitness ==
    \E d \in Devices :
        /\ fleetLast = [op |-> "options", device |-> d]
        /\ fleet[d].options = EmptyDict
        /\ fleet[d].interval = DEFAULT_SCAN_INTERVAL
        /\ Truthy(fleet[d].data)
        /\ fleet[d].sent > 0


------------------------------------------------------------------------------
(* The hub of one device, call by call on its client: info_gather runs in
   an executor thread of the poll, reset_energy in the executor thread of
   the service handler.  pcPoll is "connect" or "read" while info_gather is
   inside that call of the client, pcReset is "execute" while reset_energy
   is inside the client's execute. *)

\* What read_input_registers of the hub does with the cached name: a read
\* with the cached keyword, or the trial of the keywords.
ReadKind(pn) == IF pn = "unresolved" THEN "probe" ELSE "read"

\* The request reset_energy builds, given the cached name and the keyword
\* the constructor of the library's request accepts: the keywords it tried
\* in turn ("" is the call without keyword) and the one it was built with.
ResetRequest(pn, pdu) ==
    LET first  == IF pn \in {"slave", "unit"} THEN <<pn>> ELSE <<>>
        cached == pn \in {"slave", "unit"} /\ pdu = pn
        trial  == IF pdu = "slave" THEN <<"slave">>
                  ELSE IF pdu = "unit" THEN <<"slave", "unit">>
                  ELSE <<"slave", "unit", "">>
    IN  IF cached THEN [tried |-> first, built |-> pn]
        ELSE [tried |-> first \o trial, built |-> trial[Len(trial)]]

InitHub ==
    /\ InitEntry
    /\ pduKeyword \in LibKeywords

\* info_gather starts: it calls connect when the client is not connected,
\* and the hub's read_input_registers otherwise.
HubGatherEnter ==
    /\ pcPoll = "idle"
    /\ pcPoll' = IF connected THEN "read" ELSE "connect"
    /\ gatherTrace' = IF connected THEN <<ReadKind(paramName)>> ELSE <<"connect">>
    /\ UNCHANGED <<month, options, data, pollResult, hubVars, pcReset, sensorVars,
                   stored, phase, monthlyOut, evalHistory, pollHistory,
                   resetPublished, shadowVars, pduKeyword, probed, resetTrace,
                   fleetVars, domainData, device>>

\* The client's connect returns (it connected, or it did not) or raises;
\* a raise ends info_gather through its except branch, which closes the
\* client.  Whatever connect returned, the read comes next.
HubGatherConnect ==
    /\ pcPoll = "connect"
    /\ \E res \in {"connected", "refused", "raise"} :
        IF res = "raise"
        THEN /\ pcPoll' = "idle"
             /\ connected' = FALSE
             /\ pollResult' = [kind |-> "dict", dict |-> EmptyDict, how |-> "raise",
                               registers |-> <<>>]
             /\ gatherTrace' = Append(gatherTrace, "close")
        ELSE /\ pcPoll' = "read"
             /\ connected' = (connected \/ res = "connected")
             /\ gatherTrace' = Append(gatherTrace, ReadKind(paramName))
             /\ UNCHANGED pollResult
    /\ UNCHANGED <<month, options, data, paramName, libKeyword, pcReset, sensorVars,
                   stored, phase, monthlyOut, evalHistory, pollHistory,
                   resetPublished, shadowVars, pduKeyword, probed, resetTrace,
                   fleetVars, domainData, device>>

\* The hub's read_input_registers returns or raises (the library connects
\* a client that is not connected, conn: whether that works), and
\* info_gather validates and decodes, or closes the client in its except
\* branch, and returns.
HubGatherRead ==
    /\ pcPoll = "read"
    /\ \E outcome \in ReadOutcomes, conn \in BOOLEAN :
        /\ (~(connected \/ conn)) => outcome.kind = "raise"
        /\ pollResult' = [kind |-> "dict", dict |-> InfoGather(outcome),
                          how |-> PollKind(outcome), registers |-> outcome.registers]
        /\ connected' = ConnectedAfterGather(outcome)
        /\ paramName' = NegotiatedParam(paramName, libKeyword, outcome.kind = "raise")
        /\ gatherTrace' = IF outcome.kind = "raise" THEN Append(gatherTrace, "close")
                          ELSE gatherTrace
    /\ probed' = (probed \/ ReadKind(paramName) = "probe")
    /\ pcPoll' = "idle"
    /\ UNCHANGED <<month, options, data, libKeyword, pcReset, sensorVars, stored,
                   phase, monthlyOut, evalHistory, pollHistory, resetPublished,
                   shadowVars, pduKeyword, resetTrace, fleetVars, domainData, device>>

\* reset_energy of the hub starts: it builds its request and calls the
\* client's execute with it.
HubResetEnter ==
    /\ pcReset = "idle"
    /\ pcReset' = "execute"
    /\ resetTrace' = ResetRequest(paramName, pduKeyword)
    /\ UNCHANGED <<month, options, data, pollVars, hubVars, sensorVars, stored,
                   phase, monthlyOut, evalHistory, pollHistory, resetPublished,
                   shadowVars, pduKeyword, gatherTrace, probed, fleetVars, domainData, device>>

\* The client's execute returns or raises; it connects a client that is
\* not connected (conn: whether that works).
HubResetExecute ==
    /\ pcReset = "execute"
    /\ \E conn \in BOOLEAN : connected' = (connected \/ conn)
    /\ pcReset' = "idle"
    /\ UNCHANGED <<month, options, data, pollVars, paramName, libKeyword, sensorVars,
                   stored, phase, monthlyOut, evalHistory, pollHistory,
                   resetPublished, shadowVars, pduKeyword, hubHistory, fleetVars, domainData, device>>

NextHub ==
    \/ HubGatherEnter
    \/ HubGatherConnect
    \/ HubGatherRead
    \/ HubResetEnter
    \/ HubResetExecute

SpecHub == InitHub /\ [][NextHub]_vars

\* C17: the client is never inside the execute of a reset while it is
\* inside the connect or the register read of a poll.
NoTransportOverlap == ~(pcPoll \in {"connect", "read"} /\ pcReset = "execute")

\* C18: an info_gather that ends by an exception has closed the client
\* when it returns; an info_gather that finds the client not connected
\* calls connect first, and the read is only entered after that connect or
\* with a connected client.
ClosesAndReconnects ==
    [][/\ (pcPoll \in {"connect", "read"} /\ pcPoll' = "idle"
            /\ pollResult'.how = "raise")
           => ~connected' /\ gatherTrace'[Len(gatherTrace')] = "close"
       /\ (pcPoll = "idle" /\ pcPoll' # "idle" /\ ~connected)
           => pcPoll' = "connect" /\ gatherTrace' = <<"connect">>
       /\ (pcPoll # "read" /\ pcPoll' = "read")
           => pcPoll = "connect" \/ connected]_vars

\* C18: the poll before ended by an exception, and this one has called
\* connect and is in its read.
ClosesAndReconnectsWitness ==
    /\ pcPoll = "read"
    /\ pollResult.how = "raise"
    /\ Len(gatherTrace) = 2 /\ gatherTrace[1] = "connect"

\* A step in which a read of the hub ends that tried the keywords out.
ProbeStep == pcPoll = "read" /\ pcPoll' = "idle" /\ paramName = "unresolved"

\* C19: the keywords are tried out by one read only, the first one, which
\* leaves the cached name resolved; no later read tries them out, and a
\* resolved name never changes.
NegotiatedOnce ==
    [][/\ ProbeStep => ~probed /\ paramName' # "unresolved"
       /\ paramName # "unresolved" => paramName' = paramName]_vars

\* C20: reset_energy builds its request with the cached name and tries no
\* other keyword when a name is cached, and caches the name it arrived at
\* when none was.
ResetReusesNegotiation ==
    [][(pcReset = "idle" /\ pcReset' = "execute")
        => /\ paramName # "unresolved"
               => resetTrace'.tried = <<paramName>> /\ resetTrace'.built = paramName
           /\ paramName = "unresolved" => paramName' = resetTrace'.built]_vars


------------------------------------------------------------------------------
(* Polling a device that fails and recovers: from some point on (device.healthy)
   every read of the device returns a valid block of 9 registers.  The poll
   timer, the executor and the event loop run what is due. *)

InitLive == Init /\ libKeyword = "slave" /\ month = FirstMonth

\* The device answers every read from now on.
DeviceRecovers ==
    /\ ~device.healthy
    /\ device' = [healthy |-> TRUE, read |-> None]
    /\ UNCHANGED <<month, options, data, pollVars, hubVars, pcReset, sensorVars,
                   stored, phase, monthlyOut, evalHistory, pollHistory,
                   resetPublished, shadowVars, pduKeyword, hubHistory, fleetVars,
                   domainData>>

\* info_gather in the executor, as InfoGatherRun: a healthy device lets the
\* client connect and answers the read with a block of 9 registers, which
\* the model then remembers.
LiveInfoGather ==
    /\ pcPoll = "reading"
    /\ \E outcome \in ReadOutcomes, conn \in BOOLEAN, raisedIn \in {"connect", "read"} :
        /\ (~(connected \/ conn)) => outcome.kind = "raise"
        /\ (outcome.kind # "raise") => raisedIn = "read"
        /\ (raisedIn = "connect") => ~connected
        /\ device.healthy => PollKind(outcome) = "ok"
        /\ pollResult' = [kind |-> "dict", dict |-> InfoGather(outcome),
                          how |-> PollKind(outcome), registers |-> outcome.registers]
        /\ connected' = ConnectedAfterGather(outcome)
        /\ paramName' = IF raisedIn = "connect" THEN paramName
                        ELSE NegotiatedParam(paramName, libKeyword, outcome.kind = "raise")
        /\ device' = IF device.healthy
                     THEN [device EXCEPT !.read = Some(outcome.registers)]
                     ELSE device
    /\ pcPoll' = "returned"
    /\ UNCHANGED <<month, options, data, libKeyword, pcReset, sensorVars, stored,
                   phase, monthlyOut, evalHistory, pollHistory, resetPublished,
                   shadowVars, pduKeyword, hubHistory, fleetVars, domainData>>

\* Awaiting the executor job raises; this is no answer of the device, and
\* does not happen once the device answers every read.
LiveExecutorError ==
    /\ ~device.healthy
    /\ ExecutorError

NextLive ==
    \/ DeviceRecovers
    \/ PollStart
    \/ LiveInfoGather
    \/ LiveExecutorError
    \/ PollFinish
    \/ AddEntities
    \/ ResetCall
    \/ HubResetEnergy
    \/ ResetCheck
    \/ ResetWrite
    \/ ResetPublish

\* PollFinish can be taken, and changes pcPoll, exactly when the executor job
\* has returned.
PollFinishEnabled == pcPoll = "returned"

\* Weak fairness of PollFinish, WF_vars(PollFinish), with its enabling
\* condition written out.
PollFinishFair == []<>(~PollFinishEnabled) \/ []<><<PollFinish>>_vars

\* The timer starts every poll that is due, the executor runs the job it
\* was given, the event loop runs what waits for it, and the set-up of the
\* entry goes on to its end.
SpecLive ==
    /\ InitLive
    /\ [][NextLive]_vars
    /\ WF_vars(PollStart)
    /\ WF_vars(LiveInfoGather)
    /\ PollFinishFair
    /\ WF_vars(AddEntities)

\* C21: a poll cycle that got a failed result does not read again, it ends;
\* and once the device answers every read with a block of 9 registers, the
\* coordinator's data eventually is the decoded value of a block read after
\* that point.
RecoveryReachesSnapshot ==
    /\ [][(pcPoll = "returned" /\ pollResult.how # "ok")
            => pcPoll' \in {"returned", "idle"}]_vars
    /\ device.healthy
         ~> (device.read # None /\ data = Decode(Val(device.read)))

\* C21: the coordinator lost its first polls, the device recovered while a
\* failed poll was still to end, and the data is the block read since.
RecoveryReachesSnapshotWitness ==
    /\ device.healthy
    /\ device.read # None
    /\ data = Decode(Val(device.read))
    /\ lastPoll = "ok"
    /\ pcPoll = "idle"


=============================================================================
